---------------------------- MODULE Spec2Model ----------------------------
(***************************************************************************)
(* Model of translate-docx: the paragraph segmentation and reinjection     *)
(* engine (xml-utils.ts), the package helpers (docx-utils.ts) and the      *)
(* extract / inject pipelines that drive them.                             *)
(*                                                                         *)
(* A string is a sequence of one-character strings.  Offsets into a string *)
(* are 0-based as in JavaScript (lastIndex, match.index); s[i + 1] is the  *)
(* character at offset i.                                                  *)
(***************************************************************************)
EXTENDS Integers, Sequences, FiniteSets, TLC

VARIABLES
    mode,          \* which entry point this behaviour exercises
    pc,            \* position inside that entry point
    xml,           \* xml argument of extractParagraphSegments / replaceParagraphText
    sourcePath,    \* source argument of extractParagraphSegments
    startId,       \* startId argument of extractParagraphSegments
    segments,      \* segments returned by extractParagraphSegments
    nextId,        \* nextId returned by extractParagraphSegments
    translations,  \* translations argument of replaceParagraphText
    keys,          \* originalText computed by each call of the replace callback
    pieces,        \* string returned by each call of the replace callback
    out,           \* string returned by replaceParagraphText
    text,          \* argument of escapeXml
    escaped,       \* result of escapeXml(text)
    unescaped,     \* result of unescapeXml(escaped)
    inputFiles,    \* the package as unzipped from the .docx
    files,         \* the package the pipeline holds and rewrites
    fileIndex,     \* how many translatable files the running loop has done
    idToTranslation, \* translations by segment id, as loaded
    textMap,       \* original text -> translated text
    translatedCount, \* the CLI's tally of segments with a translation
    missingCount,  \* the CLI's tally of segments without
    partPieces,    \* per injected file, what the replace callback returned
    error,         \* the error reported, "" when none
    simpleFormat,  \* the plain-text rendering of the segments
    parsed,        \* what parseTxtTranslations returned for it
    readPath,      \* path argument of a call of getXmlContent
    readText,      \* what that call returned
    keysAgain,     \* originalText computed by each callback of a second pass
    piecesAgain,   \* string returned by each callback of the second pass
    outAgain,      \* replaceParagraphText(out, translations)
    paragraphLastIndex, \* PARAGRAPH_REGEX.lastIndex between calls
    textLastIndex, \* TEXT_ELEMENT_REGEX.lastIndex between calls
    callCount,     \* calls of the two functions made so far in this module
    mappingAfter,  \* the translations map as the latest call left it
    state,         \* App.tsx: the state signal
    file,          \* App.tsx: the file signal, <<>> for null, else <<file>>
    docxFiles,     \* App.tsx: the docxFiles signal, <<>> for null, else <<package>>
    startParagraph, \* App.tsx: the startParagraph signal
    endParagraph,  \* App.tsx: the endParagraph signal
    inFlight,      \* App.tsx: the processFile calls waiting for their unzip
    uploads,       \* App.tsx: how many files were dropped or selected so far
    zipping        \* App.tsx: the injectTranslations calls waiting for their zip

vars == <<mode, pc, xml, sourcePath, startId, segments, nextId, translations,
          keys, pieces, out, text, escaped, unescaped, inputFiles, files,
          fileIndex, idToTranslation, textMap, translatedCount, missingCount,
          partPieces, error, simpleFormat, parsed, readPath,
          readText, keysAgain, piecesAgain, outAgain, paragraphLastIndex,
          textLastIndex, callCount, mappingAfter, state, file, docxFiles,
          startParagraph, endParagraph, inFlight, uploads, zipping>>

-----------------------------------------------------------------------------
(* Characters and string primitives of the JavaScript runtime.              *)

\* \w of a JavaScript regular expression: [A-Za-z0-9_]
WordChars ==
    {"a","b","c","d","e","f","g","h","i","j","k","l","m","n","o","p","q",
     "r","s","t","u","v","w","x","y","z",
     "A","B","C","D","E","F","G","H","I","J","K","L","M","N","O","P","Q",
     "R","S","T","U","V","W","X","Y","Z",
     "0","1","2","3","4","5","6","7","8","9","_"}

\* \s of a regular expression, and the characters String.prototype.trim strips
WhiteSpace == {" ", "\n", "\t", "\r"}

\* s.slice(from, to): offsets from (inclusive) to to (exclusive)
Slice(s, from, to) == SubSeq(s, from + 1, to)

\* whether the literal lit occurs in s at offset i
StartsAt(s, i, lit) ==
    /\ i >= 0
    /\ i + Len(lit) <= Len(s)
    /\ \A k \in 1..Len(lit) : s[i + k] = lit[k]

\* s.indexOf(lit, i), -1 when there is none
RECURSIVE IndexOf(_, _, _)
IndexOf(s, lit, i) ==
    IF i + Len(lit) > Len(s) THEN -1
    ELSE IF StartsAt(s, i, lit) THEN i
    ELSE IndexOf(s, lit, i + 1)

\* texts.join(''): the strings of a list one after the other
RECURSIVE Join(_)
Join(list) == IF list = <<>> THEN <<>> ELSE Head(list) \o Join(Tail(list))

\* String.prototype.trim
RECURSIVE TrimStart(_)
TrimStart(s) ==
    IF s # <<>> /\ Head(s) \in WhiteSpace THEN TrimStart(Tail(s)) ELSE s

RECURSIVE TrimEnd(_)
TrimEnd(s) ==
    IF s # <<>> /\ s[Len(s)] \in WhiteSpace
    THEN TrimEnd(SubSeq(s, 1, Len(s) - 1)) ELSE s

Trim(s) == TrimEnd(TrimStart(s))

\* s.replace(/pat/g, rep) for a literal pattern: every occurrence, left to
\* right, not overlapping
RECURSIVE ReplaceAll(_, _, _)
ReplaceAll(s, pat, rep) ==
    IF s = <<>> THEN <<>>
    ELSE IF StartsAt(s, 0, pat)
         THEN rep \o ReplaceAll(SubSeq(s, Len(pat) + 1, Len(s)), pat, rep)
         ELSE <<Head(s)>> \o ReplaceAll(Tail(s), pat, rep)

\* `${id}` of a non-negative number: its decimal digits
Digit(d) == CASE d = 0 -> "0" [] d = 1 -> "1" [] d = 2 -> "2" [] d = 3 -> "3"
              [] d = 4 -> "4" [] d = 5 -> "5" [] d = 6 -> "6" [] d = 7 -> "7"
              [] d = 8 -> "8" [] d = 9 -> "9"

RECURSIVE NumberToString(_)
NumberToString(n) ==
    IF n < 10 THEN <<Digit(n)>>
    ELSE NumberToString(n \div 10) \o <<Digit(n % 10)>>

-----------------------------------------------------------------------------
(* The two module-level regular expressions of xml-utils.ts.                *)

NoMatch == [found |-> FALSE]

\* PARAGRAPH_REGEX = /<w:p\b[^>]*>(.*?)<\/w:p>/gs tried at offset i.
\* [^>]* cannot cross a ">", so the opening tag ends at the first ">";
\* (.*?) is lazy and "." matches newlines (flag s), so the block ends at the
\* first "</w:p>" after the opening tag.
ParagraphMatchAt(s, i) ==
    IF ~StartsAt(s, i, <<"<","w",":","p">>) THEN NoMatch
    ELSE IF i + 4 < Len(s) /\ s[i + 5] \in WordChars THEN NoMatch
    ELSE LET gt == IndexOf(s, <<">">>, i + 4) IN
         IF gt = -1 THEN NoMatch
         ELSE LET close == IndexOf(s, <<"<","/","w",":","p",">">>, gt + 1) IN
              IF close = -1 THEN NoMatch
              ELSE [found |-> TRUE,
                    index |-> i,
                    fullMatch |-> Slice(s, i, close + 6),
                    content |-> Slice(s, gt + 1, close),
                    lastIndex |-> close + 6]

\* PARAGRAPH_REGEX.exec(s) with PARAGRAPH_REGEX.lastIndex = from
RECURSIVE ParagraphExec(_, _)
ParagraphExec(s, from) ==
    IF from > Len(s) THEN NoMatch
    ELSE LET m == ParagraphMatchAt(s, from) IN
         IF m.found THEN m ELSE ParagraphExec(s, from + 1)

\* TEXT_ELEMENT_REGEX = /<w:t(\s[^>]*)?>([^<]*)<\/w:t>/g tried at offset i.
\* Group 1 is absent exactly when ">" follows "<w:t" at once; [^<]* is greedy
\* and must be followed by "<", so the content runs to the first "<".
TextMatchAt(s, i) ==
    IF ~StartsAt(s, i, <<"<","w",":","t">>) \/ i + 4 >= Len(s) THEN NoMatch
    ELSE LET gt == IF s[i + 5] = ">" THEN i + 4
                   ELSE IF s[i + 5] \in WhiteSpace
                        THEN IndexOf(s, <<">">>, i + 5)
                        ELSE -1
         IN
         IF gt = -1 THEN NoMatch
         ELSE LET lt == IndexOf(s, <<"<">>, gt + 1) IN
              IF lt = -1 \/ ~StartsAt(s, lt, <<"<","/","w",":","t",">">>)
              THEN NoMatch
              ELSE [found |-> TRUE,
                    index |-> i,
                    attrs |-> Slice(s, i + 4, gt),
                    text |-> Slice(s, gt + 1, lt),
                    lastIndex |-> lt + 6]

\* TEXT_ELEMENT_REGEX.exec(s) with TEXT_ELEMENT_REGEX.lastIndex = from
RECURSIVE TextExec(_, _)
TextExec(s, from) ==
    IF from > Len(s) THEN NoMatch
    ELSE LET m == TextMatchAt(s, from) IN
         IF m.found THEN m ELSE TextExec(s, from + 1)

\* a variant in which a failed exec leaves the cursor where it was
FailedExecKeeps(lastIndex) == lastIndex

\* lastIndex of a global regular expression after exec returned null from
\* lastIndex: the loops of both functions end on such a call
FailedExecLastIndex(lastIndex) == 0

\* PARAGRAPH_REGEX.lastIndex = 0, TEXT_ELEMENT_REGEX.lastIndex = 0
ResetLastIndex(lastIndex) == 0

-----------------------------------------------------------------------------
(* xml-utils.ts: escapeXml and unescapeXml.                                 *)

escapeXml(t) ==
    LET s1 == ReplaceAll(t, <<"&">>, <<"&","a","m","p",";">>)
        s2 == ReplaceAll(s1, <<"<">>, <<"&","l","t",";">>)
        s3 == ReplaceAll(s2, <<">">>, <<"&","g","t",";">>)
        s4 == ReplaceAll(s3, <<"\"">>, <<"&","q","u","o","t",";">>)
    IN  ReplaceAll(s4, <<"'">>, <<"&","a","p","o","s",";">>)

unescapeXml(t) ==
    LET s1 == ReplaceAll(t, <<"&","a","m","p",";">>, <<"&">>)
        s2 == ReplaceAll(s1, <<"&","l","t",";">>, <<"<">>)
        s3 == ReplaceAll(s2, <<"&","g","t",";">>, <<">">>)
        s4 == ReplaceAll(s3, <<"&","q","u","o","t",";">>, <<"\"">>)
    IN  ReplaceAll(s4, <<"&","a","p","o","s",";">>, <<"'">>)

-----------------------------------------------------------------------------
(* xml-utils.ts: extractParagraphSegments.                                  *)

\* the inner while loop: the content of every text run of one paragraph
RECURSIVE CollectTexts(_, _)
CollectTexts(paragraphContent, lastIndex) ==
    LET textMatch == TextExec(paragraphContent, lastIndex) IN
    IF ~textMatch.found THEN <<>>
    ELSE <<textMatch.text>>
         \o CollectTexts(paragraphContent, textMatch.lastIndex)

\* a variant that trims the joined text
CombinedTextTrimmed(texts) == Trim(Join(texts))

\* const combinedText = texts.join('')
CombinedText(texts) == Join(texts)

\* if (combinedText.trim().length === 0) continue
IsEmptyParagraph(combinedText) == Len(Trim(combinedText)) = 0

\* the object pushed for a paragraph that is kept
MakeSegment(id, combinedText, source, texts) ==
    [id |-> <<"p">> \o NumberToString(id),
     text |-> combinedText,
     source |-> source,
     runCount |-> Len(texts)]

\* a variant that counts every paragraph
AdvanceIdAlways(id, pushed) == id + 1

\* the counter after a paragraph: id++ when a segment was pushed
AdvanceId(id, pushed) == IF pushed THEN id + 1 ELSE id

\* the outer while loop, from PARAGRAPH_REGEX.lastIndex = lastIndex
RECURSIVE ExtractLoop(_, _, _, _, _)
ExtractLoop(s, source, lastIndex, id, segs) ==
    LET match == ParagraphExec(s, lastIndex) IN
    IF ~match.found THEN [segments |-> segs, nextId |-> id]
    ELSE LET texts == CollectTexts(match.content, 0)
             combinedText == CombinedText(texts)
             pushed == ~IsEmptyParagraph(combinedText)
         IN  ExtractLoop(s, source, match.lastIndex, AdvanceId(id, pushed),
                 IF pushed
                 THEN Append(segs, MakeSegment(id, combinedText, source, texts))
                 ELSE segs)

extractParagraphSegments(s, source, start) ==
    ExtractLoop(s, source, 0, start, <<>>)

-----------------------------------------------------------------------------
(* xml-utils.ts: replaceParagraphText.                                      *)

\* a variant that trims the key
OriginalTextTrimmed(paragraphContent) ==
    Trim(Join(CollectTexts(paragraphContent, 0)))

\* a variant that takes the first run for the key
OriginalTextFirstRun(paragraphContent) ==
    IF CollectTexts(paragraphContent, 0) = <<>> THEN <<>>
    ELSE CollectTexts(paragraphContent, 0)[1]

\* const originalText = texts.join('') of the replace callback
OriginalText(paragraphContent) == Join(CollectTexts(paragraphContent, 0))

\* a variant that writes the translation as it is
FirstRunRaw(attrs, translation) ==
    <<"<","w",":","t">> \o attrs \o <<">">> \o translation
        \o <<"<","/","w",":","t",">">>

\* `<w:t${attributes}>${escapeXml(translation)}</w:t>`
FirstRun(attrs, translation) ==
    <<"<","w",":","t">> \o attrs \o <<">">> \o escapeXml(translation)
        \o <<"<","/","w",":","t",">">>

\* a variant that drops the attributes of a cleared run
ClearedRunBare(attrs) == <<"<","w",":","t",">","<","/","w",":","t",">">>

\* `<w:t${attributes}></w:t>`
ClearedRun(attrs) ==
    <<"<","w",":","t">> \o attrs \o <<">">> \o <<"<","/","w",":","t",">">>

\* paragraphContent.replace(TEXT_ELEMENT_REGEX, ...) from offset lastIndex
RECURSIVE ReplaceRuns(_, _, _, _)
ReplaceRuns(paragraphContent, lastIndex, isFirst, translation) ==
    LET textMatch == TextExec(paragraphContent, lastIndex) IN
    IF ~textMatch.found
    THEN Slice(paragraphContent, lastIndex, Len(paragraphContent))
    ELSE Slice(paragraphContent, lastIndex, textMatch.index)
         \o (IF isFirst THEN FirstRun(textMatch.attrs, translation)
                        ELSE ClearedRun(textMatch.attrs))
         \o ReplaceRuns(paragraphContent, textMatch.lastIndex, FALSE,
                        translation)

\* fullMatch.match(/<w:p(\s[^>]*)?>/)?.[1] || '' : group 1 of the first match
\* at or after offset i, the empty string when the group or the match is absent
RECURSIVE OpeningTagAttrs(_, _)
OpeningTagAttrs(fullMatch, i) ==
    IF i + 4 >= Len(fullMatch) THEN <<>>
    ELSE IF ~StartsAt(fullMatch, i, <<"<","w",":","p">>)
         THEN OpeningTagAttrs(fullMatch, i + 1)
    ELSE IF fullMatch[i + 5] = ">" THEN <<>>
    ELSE IF fullMatch[i + 5] \in WhiteSpace
            /\ IndexOf(fullMatch, <<">">>, i + 5) # -1
         THEN Slice(fullMatch, i + 4, IndexOf(fullMatch, <<">">>, i + 5))
    ELSE OpeningTagAttrs(fullMatch, i + 1)

\* `<w:p${...}>${newParagraphContent}</w:p>`
RebuiltParagraph(fullMatch, newParagraphContent) ==
    <<"<","w",":","p">> \o OpeningTagAttrs(fullMatch, 0) \o <<">">>
        \o newParagraphContent \o <<"<","/","w",":","p",">">>

\* a variant that looks the trimmed text up
ReplaceCallbackTrimmed(fullMatch, paragraphContent, trans) ==
    IF Trim(OriginalText(paragraphContent)) \notin DOMAIN trans THEN fullMatch
    ELSE RebuiltParagraph(fullMatch,
             ReplaceRuns(paragraphContent, 0, TRUE,
                         trans[Trim(OriginalText(paragraphContent))]))

\* the callback given to xml.replace(PARAGRAPH_REGEX, ...)
ReplaceCallback(fullMatch, paragraphContent, trans) ==
    LET originalText == OriginalText(paragraphContent) IN
    IF originalText \notin DOMAIN trans THEN fullMatch
    ELSE RebuiltParagraph(fullMatch,
             ReplaceRuns(paragraphContent, 0, TRUE, trans[originalText]))

\* every match String.prototype.replace finds for the global PARAGRAPH_REGEX
RECURSIVE ParagraphMatches(_, _)
ParagraphMatches(s, lastIndex) ==
    LET match == ParagraphExec(s, lastIndex) IN
    IF ~match.found THEN <<>>
    ELSE <<match>> \o ParagraphMatches(s, match.lastIndex)

\* String.prototype.replace: the text between the matches is copied and each
\* match gives way to what the callback returned for it
RECURSIVE Substitute(_, _, _, _)
Substitute(s, matches, results, pos) ==
    IF matches = <<>> THEN Slice(s, pos, Len(s))
    ELSE Slice(s, pos, Head(matches).index) \o Head(results)
         \o Substitute(s, Tail(matches), Tail(results), Head(matches).lastIndex)

\* xml.replace(PARAGRAPH_REGEX, callback): the key each call of the callback
\* computes, what each call returns, and the string that results
ReplaceTrace(s, trans) ==
    LET matches == ParagraphMatches(s, 0)
        results == [i \in 1..Len(matches) |->
                      ReplaceCallback(matches[i].fullMatch, matches[i].content,
                                      trans)]
    IN  [keys |-> [i \in 1..Len(matches) |-> OriginalText(matches[i].content)],
         pieces |-> results,
         out |-> Substitute(s, matches, results, 0)]

replaceParagraphText(s, trans) == ReplaceTrace(s, trans).out

-----------------------------------------------------------------------------
(* docx-utils.ts.  A package (Record<string, Uint8Array>) is the list of   *)
(* its entries in key order, each a path and its bytes.                     *)

\* the letters and digits in code order
LowerCase ==
    <<"a","b","c","d","e","f","g","h","i","j","k","l","m","n","o","p","q",
      "r","s","t","u","v","w","x","y","z">>

UpperCase ==
    <<"A","B","C","D","E","F","G","H","I","J","K","L","M","N","O","P","Q",
      "R","S","T","U","V","W","X","Y","Z">>

Numerals == <<"0","1","2","3","4","5","6","7","8","9">>

\* the UTF-8 byte of a character (the characters of the model are ASCII)
CharCode(c) ==
    CASE c = "\t" -> 9 [] c = "\n" -> 10 [] c = "\r" -> 13 [] c = " " -> 32
      [] c = "\"" -> 34 [] c = "&" -> 38 [] c = "'" -> 39 [] c = "-" -> 45
      [] c = "." -> 46 [] c = "/" -> 47 [] c = ":" -> 58 [] c = ";" -> 59
      [] c = "<" -> 60 [] c = "=" -> 61 [] c = ">" -> 62 [] c = "_" -> 95
      [] \E i \in 1..10 : Numerals[i] = c ->
            47 + (CHOOSE i \in 1..10 : Numerals[i] = c)
      [] \E i \in 1..26 : UpperCase[i] = c ->
            64 + (CHOOSE i \in 1..26 : UpperCase[i] = c)
      [] \E i \in 1..26 : LowerCase[i] = c ->
            96 + (CHOOSE i \in 1..26 : LowerCase[i] = c)

\* the character of a byte below 128
CodeChar(b) ==
    CASE b = 9 -> "\t" [] b = 10 -> "\n" [] b = 13 -> "\r" [] b = 32 -> " "
      [] b = 34 -> "\"" [] b = 38 -> "&" [] b = 39 -> "'" [] b = 45 -> "-"
      [] b = 46 -> "." [] b = 47 -> "/" [] b = 58 -> ":" [] b = 59 -> ";"
      [] b = 60 -> "<" [] b = 61 -> "=" [] b = 62 -> ">" [] b = 95 -> "_"
      [] b \in 48..57 -> Numerals[b - 47]
      [] b \in 65..90 -> UpperCase[b - 64]
      [] b \in 97..122 -> LowerCase[b - 96]

\* new TextEncoder().encode(content)
TextEncode(content) == [i \in 1..Len(content) |-> CharCode(content[i])]

\* new TextDecoder().decode(file)
TextDecode(data) == [i \in 1..Len(data) |-> CodeChar(data[i])]

\* Object.keys(files)
Keys(fs) == [i \in 1..Len(fs) |-> fs[i].path]

\* a variant that takes an entry without content for a missing one
HasKeyWithContent(fs, path) ==
    \E i \in 1..Len(fs) : fs[i].path = path /\ fs[i].data # <<>>

\* !file is false: files[path] is not undefined
HasKey(fs, path) == \E i \in 1..Len(fs) : fs[i].path = path

\* files[path]
Entry(fs, path) == fs[CHOOSE i \in 1..Len(fs) : fs[i].path = path]

\* getXmlContent(files, path): the text, or the error thrown
getXmlContent(fs, path) ==
    IF ~HasKey(fs, path)
    THEN [ok |-> FALSE, missing |-> path]
    ELSE [ok |-> TRUE, text |-> TextDecode(Entry(fs, path).data)]

\* setXmlContent(files, path, content): files[path] = encode(content); a new
\* key goes last
setXmlContent(fs, path, content) ==
    IF HasKey(fs, path)
    THEN [i \in 1..Len(fs) |->
            IF fs[i].path = path
            THEN [path |-> path, data |-> TextEncode(content)]
            ELSE fs[i]]
    ELSE Append(fs, [path |-> path, data |-> TextEncode(content)])

\* /^prefix\d*\.xml$/.test(path)
MatchesNumbered(path, prefix) ==
    /\ Len(path) >= Len(prefix) + 4
    /\ SubSeq(path, 1, Len(prefix)) = prefix
    /\ SubSeq(path, Len(path) - 3, Len(path)) = <<".","x","m","l">>
    /\ \A k \in Len(prefix) + 1..Len(path) - 4 :
         path[k] \in {"0","1","2","3","4","5","6","7","8","9"}

\* a variant that takes every entry of the package
IsTranslatableAny(path) == Len(path) >= 0

\* translatablePatterns.some(pattern => pattern.test(path))
IsTranslatable(path) ==
    \/ path = <<"w","o","r","d","/","d","o","c","u","m","e","n","t",".","x","m","l">>
    \/ MatchesNumbered(path, <<"w","o","r","d","/","h","e","a","d","e","r">>)
    \/ MatchesNumbered(path, <<"w","o","r","d","/","f","o","o","t","e","r">>)
    \/ path = <<"w","o","r","d","/","f","o","o","t","n","o","t","e","s",".","x","m","l">>
    \/ path = <<"w","o","r","d","/","e","n","d","n","o","t","e","s",".","x","m","l">>
    \/ path = <<"w","o","r","d","/","c","o","m","m","e","n","t","s",".","x","m","l">>

\* getTranslatableFiles(files)
getTranslatableFiles(fs) == SelectSeq(Keys(fs), IsTranslatable)

-----------------------------------------------------------------------------
(* extract.ts main and App.tsx processFile: the extraction loop; inject.ts  *)
(* main and App.tsx injectTranslations: the mapping and the injection loop. *)

\* a variant that numbers the segments of every file from 0
ExtractFileFromZero(fs, filePath, id) ==
    IF ~HasKey(fs, filePath) THEN [ok |-> FALSE, missing |-> filePath]
    ELSE [ok |-> TRUE] @@
         extractParagraphSegments(getXmlContent(fs, filePath).text, filePath,
                                  0)

\* one turn of the extraction loop: the segments of one file, numbered from id
ExtractFile(fs, filePath, id) ==
    IF ~HasKey(fs, filePath) THEN [ok |-> FALSE, missing |-> filePath]
    ELSE [ok |-> TRUE] @@
         extractParagraphSegments(getXmlContent(fs, filePath).text, filePath,
                                  id)

\* a variant that accepts a blank translation
HasTranslationUntrimmed(idMap, id) ==
    /\ id \in DOMAIN idMap
    /\ idMap[id] # <<>>

\* translation && translation.trim().length > 0, translation being
\* idToTranslation.get(id)
HasTranslation(idMap, id) ==
    /\ id \in DOMAIN idMap
    /\ idMap[id] # <<>>
    /\ Len(Trim(idMap[id])) > 0

\* a variant that keeps the value a key already has
MapSetKeepFirst(m, key, value) ==
    [k \in DOMAIN m \cup {key} |-> IF k \in DOMAIN m THEN m[k] ELSE value]

\* textMap.set(key, value)
MapSet(m, key, value) ==
    [k \in DOMAIN m \cup {key} |-> IF k = key THEN value ELSE m[k]]

\* the loop that builds textMap and, in the CLI, the two tallies
RECURSIVE BuildTextMap(_, _, _)
BuildTextMap(segs, idMap, acc) ==
    IF segs = <<>> THEN acc
    ELSE LET segment == Head(segs) IN
         BuildTextMap(Tail(segs), idMap,
             IF HasTranslation(idMap, segment.id)
             THEN [textMap |-> MapSet(acc.textMap, segment.text,
                                      idMap[segment.id]),
                   translatedCount |-> acc.translatedCount + 1,
                   missingCount |-> acc.missingCount]
             ELSE [textMap |-> acc.textMap,
                   translatedCount |-> acc.translatedCount,
                   missingCount |-> acc.missingCount + 1])

\* one turn of the injection loop: the package with one file rewritten
Injected(fs, filePath, r) ==
    [ok |-> TRUE, files |-> setXmlContent(fs, filePath, r.out),
     pieces |-> r.pieces]

InjectFile(fs, filePath, trans) ==
    IF ~HasKey(fs, filePath) THEN [ok |-> FALSE, missing |-> filePath]
    ELSE Injected(fs, filePath,
                  ReplaceTrace(getXmlContent(fs, filePath).text, trans))

\* `File not found in DOCX: ${path}`
FileNotFound(path) == <<"File not found in DOCX: ", path>>

-----------------------------------------------------------------------------
(* Inputs of the function-level behaviours.                                 *)

\* most items (text runs and other markup) inside a generated paragraph
MaxRuns == 3

\* longest argument of escapeXml
MaxTextLen == 4

\* opening tags of a paragraph: bare, and with an attribute
ParagraphOpeners ==
    { <<"<","w",":","p",">">>,
      <<"<","w",":","p"," ","a",">">> }

\* what a paragraph holds: a text run, a text run with an attribute and
\* whitespace-only content, and markup that is not a text run
RunItems ==
    { <<"<","w",":","t",">","a","<","/","w",":","t",">">>,
      <<"<","w",":","t"," ","s",">"," ","<","/","w",":","t",">">>,
      <<"<","w",":","p","P","r","/",">">> }

Paragraphs ==
    { open \o Join(items) \o <<"<","/","w",":","p",">">> :
        open \in ParagraphOpeners,
        items \in UNION { [1..k -> RunItems] : k \in 0..MaxRuns } }

\* what precedes the generated paragraph: nothing, a self-closing paragraph,
\* or a paragraph and a line break
Prefixes ==
    { <<>>,
      <<"<","w",":","p","/",">">>,
      <<"<","w",":","p",">","<","w",":","t",">","a","<","/","w",":","t",">","<","/","w",":","p",">","\n">> }

\* what follows it: nothing, or stray text and another paragraph
Suffixes ==
    { <<>>,
      <<"x","<","w",":","p"," ","a",">","<","w",":","t",">","a","<","/","w",":","t",">","<","/","w",":","p",">">> }

\* the example of the specification's section 8
ExampleDoc ==
    <<"<","w",":","p",">","<","w",":","r",">","<","w",":","t",">","H","e",
      "l","l","o","<","/","w",":","t",">","<","/","w",":","r",">","<","w",
      ":","r",">","<","w",":","t",">"," ","w","o","r","l","d","<","/","w",
      ":","t",">","<","/","w",":","r",">","<","/","w",":","p",">">>

Docs ==
    { pre \o para \o post :
        pre \in Prefixes, para \in Paragraphs, post \in Suffixes }
    \cup { ExampleDoc }

\* (source, startId) arguments of extractParagraphSegments
ExtractArgs ==
    { <<<<"w","o","r","d","/","d","o","c","u","m","e","n","t",".","x","m","l">>, 0>>,
      <<<<"w","o","r","d","/","h","e","a","d","e","r","1",".","x","m","l">>, 9>> }

\* translations arguments of replaceParagraphText
Maps ==
    { <<>>,
      <<"a">> :> <<"T","<">>,
      (<<"a"," ">> :> <<"&">>) @@ (<<"a"," ","a">> :> <<"a">>),
      (<<>> :> <<"z">>) @@ (<<" ">> :> <<"b">>),
      <<"H","e","l","l","o"," ","w","o","r","l","d">> :>
        <<"B","o","n","j","o","u","r"," ","l","e"," ","m","o","n","d","e">>,
      (<<"a">> :> <<"&">>) @@ (<<"&","a","m","p",";">> :> <<"a">>) }

\* characters of an argument of escapeXml: the five that are escaped and
\* what entity-like text is made of
TextChars == {"&", "<", ">", "\"", "'", "l", "t", ";"}

Texts == UNION { [1..k -> TextChars] : k \in 0..MaxTextLen }

-----------------------------------------------------------------------------
(* Behaviours: one call sequence per entry point.                           *)

NoXml ==
    /\ xml = <<>> /\ sourcePath = <<>> /\ startId = 0
    /\ segments = <<>> /\ nextId = 0
    /\ translations = <<>> /\ keys = <<>> /\ pieces = <<>> /\ out = <<>>

NoEscape == text = <<>> /\ escaped = <<>> /\ unescaped = <<>>

xmlVars == <<xml, sourcePath, startId, segments, nextId, translations, keys,
             pieces, out>>

escapeVars == <<text, escaped, unescaped>>

NoPipeline ==
    /\ inputFiles = <<>> /\ files = <<>> /\ fileIndex = 0
    /\ idToTranslation = <<>> /\ textMap = <<>>
    /\ translatedCount = 0 /\ missingCount = 0
    /\ partPieces = <<>> /\ error = ""

pipelineVars == <<inputFiles, files, fileIndex, idToTranslation, textMap,
                  translatedCount, missingCount, partPieces, error>>

NoTxt == simpleFormat = <<>> /\ parsed = <<>>

txtVars == <<simpleFormat, parsed>>

\* the state of the entry points a behaviour of the engine does not touch
NoGet == readPath = <<>> /\ readText = <<>>

getVars == <<readPath, readText>>

NoAgain == keysAgain = <<>> /\ piecesAgain = <<>> /\ outAgain = <<>>

againVars == <<keysAgain, piecesAgain, outAgain>>

NoCalls ==
    /\ paragraphLastIndex = 0 /\ textLastIndex = 0
    /\ callCount = 0 /\ mappingAfter = <<>>

callVars == <<paragraphLastIndex, textLastIndex, callCount, mappingAfter>>

NoApp ==
    /\ state = "" /\ file = <<>> /\ docxFiles = <<>>
    /\ startParagraph = 0 /\ endParagraph = 0
    /\ inFlight = {} /\ uploads = 0 /\ zipping = 0

appVars == <<state, file, docxFiles, startParagraph, endParagraph, inFlight,
             uploads, zipping>>

NoRest == NoTxt /\ NoGet /\ NoAgain /\ NoCalls /\ NoApp

restVars == <<txtVars, getVars, againVars, callVars, appVars>>

\* a caller holding one document part
InitXml ==
    /\ mode = "xml" /\ pc = "start"
    /\ xml \in Docs
    /\ sourcePath = <<>> /\ startId = 0 /\ segments = <<>> /\ nextId = 0
    /\ translations = <<>> /\ keys = <<>> /\ pieces = <<>> /\ out = <<>>
    /\ NoEscape /\ NoPipeline /\ NoRest

\* const { segments, nextId } = extractParagraphSegments(xml, source, startId)
Extract ==
    /\ mode = "xml" /\ pc = "start"
    /\ \E args \in ExtractArgs :
         LET r == extractParagraphSegments(xml, args[1], args[2]) IN
         /\ sourcePath' = args[1]
         /\ startId' = args[2]
         /\ segments' = r.segments
         /\ nextId' = r.nextId
    /\ pc' = "extracted"
    /\ UNCHANGED restVars
    /\ UNCHANGED <<mode, xml, translations, keys, pieces, out, escapeVars,
                   pipelineVars>>

\* const newXml = replaceParagraphText(xml, translations)
Replace ==
    /\ mode = "xml" /\ pc = "extracted"
    /\ \E trans \in Maps :
         LET r == ReplaceTrace(xml, trans) IN
         /\ translations' = trans
         /\ keys' = r.keys
         /\ pieces' = r.pieces
         /\ out' = r.out
    /\ pc' = "replaced"
    /\ UNCHANGED restVars
    /\ UNCHANGED <<mode, xml, sourcePath, startId, segments, nextId, escapeVars,
                   pipelineVars>>

\* const again = replaceParagraphText(newXml, translations): a second pass
\* over the result of the first, with the same mapping
ReplaceAgain ==
    /\ mode = "xml" /\ pc = "replaced"
    /\ \E r \in { ReplaceTrace(out, translations) } :
         /\ keysAgain' = r.keys
         /\ piecesAgain' = r.pieces
         /\ outAgain' = r.out
    /\ pc' = "again"
    /\ UNCHANGED <<mode, xmlVars, escapeVars, pipelineVars, txtVars, getVars,
                   callVars, appVars>>

NextXml == Extract \/ Replace \/ ReplaceAgain

SpecXml == InitXml /\ [][NextXml]_vars

\* a caller holding one translated string
InitEscape ==
    /\ mode = "escape" /\ pc = "start"
    /\ text \in Texts
    /\ escaped = <<>> /\ unescaped = <<>>
    /\ NoXml /\ NoPipeline /\ NoRest

Escape ==
    /\ mode = "escape" /\ pc = "start"
    /\ escaped' = escapeXml(text)
    /\ pc' = "escaped"
    /\ UNCHANGED restVars
    /\ UNCHANGED <<mode, text, unescaped, xmlVars, pipelineVars>>

Unescape ==
    /\ mode = "escape" /\ pc = "escaped"
    /\ unescaped' = unescapeXml(escaped)
    /\ pc' = "unescaped"
    /\ UNCHANGED restVars
    /\ UNCHANGED <<mode, text, escaped, xmlVars, pipelineVars>>

NextEscape == Escape \/ Unescape

SpecEscape == InitEscape /\ [][NextEscape]_vars

-----------------------------------------------------------------------------
(* Inputs of the pipeline behaviours.                                       *)

\* most entries of a package
MaxEntries == 2

DocumentXml == <<"w","o","r","d","/","d","o","c","u","m","e","n","t",".","x","m","l">>

Header1Xml == <<"w","o","r","d","/","h","e","a","d","e","r","1",".","x","m","l">>

StylesXml == <<"w","o","r","d","/","s","t","y","l","e","s",".","x","m","l">>

EntryPaths == { DocumentXml, Header1Xml, StylesXml }

\* contents of an entry: one paragraph; and a blank paragraph, a paragraph of
\* two runs, a line break and a paragraph with the text of the first content
EntryTexts ==
    { <<"<","w",":","p",">","<","w",":","t",">","a","<","/","w",":","t",">","<","/","w",":","p",">">>,
      <<"<","w",":","p",">","<","w",":","t"," ","s",">"," ","<","/","w",":",
        "t",">","<","/","w",":","p",">","<","w",":","p"," ","a",">","<","w",
        ":","t",">","a","<","/","w",":","t",">","<","w",":","t"," ","s",">",
        "b","<","/","w",":","t",">","<","/","w",":","p",">","\n","<","w",
        ":","p",">","<","w",":","t",">","a","<","/","w",":","t",">","<","/",
        "w",":","p",">">> }

\* the lists of at most MaxEntries entries with distinct paths
Packages ==
    UNION { { fs \in [1..n -> [path : EntryPaths,
                               data : { TextEncode(t) : t \in EntryTexts }]] :
                \A i, j \in 1..n : i # j => fs[i].path # fs[j].path } :
            n \in 0..MaxEntries }

\* the ids a translation input may mention
TranslatedIds == { <<"p","0">>, <<"p","1">>, <<"p","2">> }

\* the translation of one id as loaded.  From a JSON file it is never empty
\* (if (segment.translation)); parsed from the [pN] text form it is trimmed.
TranslationValues(m) ==
    IF m = "cli" THEN { <<" ">>, <<"T">>, <<"U">> }
                 ELSE { <<>>, <<"T">>, <<"U">> }

TranslationInputs(m) ==
    UNION { [ids -> TranslationValues(m)] : ids \in SUBSET TranslatedIds }

-----------------------------------------------------------------------------
(* Behaviours of the pipelines: extraction, then injection, over a package. *)

Pipeline == mode \in {"cli", "web"}

InitPipeline ==
    /\ mode \in {"cli", "web"} /\ pc = "extract"
    /\ inputFiles \in Packages
    /\ files = inputFiles /\ fileIndex = 0
    /\ idToTranslation = <<>> /\ textMap = <<>>
    /\ translatedCount = 0 /\ missingCount = 0
    /\ partPieces = <<>> /\ error = ""
    /\ NoXml /\ NoEscape /\ NoRest

\* for (const filePath of translatableFiles): one file of the extraction
ExtractPart ==
    /\ Pipeline /\ pc = "extract"
    /\ fileIndex < Len(getTranslatableFiles(files))
    /\ \E r \in { ExtractFile(files,
                              getTranslatableFiles(files)[fileIndex + 1],
                              nextId) } :
           IF r.ok
           THEN /\ segments' = segments \o r.segments
                /\ nextId' = r.nextId
                /\ fileIndex' = fileIndex + 1
                /\ UNCHANGED <<pc, error>>
           ELSE /\ error' = FileNotFound(r.missing)
                /\ pc' = "failed"
                /\ UNCHANGED <<segments, nextId, fileIndex>>
    /\ UNCHANGED restVars
    /\ UNCHANGED <<mode, xml, sourcePath, startId, translations, keys, pieces,
                   out, escapeVars, inputFiles, files, idToTranslation,
                   textMap, translatedCount, missingCount, partPieces>>

\* the loop is over: the segments are written out (CLI) or shown (web)
ExtractDone ==
    /\ Pipeline /\ pc = "extract"
    /\ fileIndex = Len(getTranslatableFiles(files))
    /\ pc' = "extracted"
    /\ UNCHANGED restVars
    /\ UNCHANGED <<mode, xmlVars, escapeVars, pipelineVars>>

\* inject.ts main up to the tallies, App.tsx injectTranslations up to the
\* check of textMap.size: the translations are loaded and joined with the
\* segments
BuildMapping ==
    /\ Pipeline /\ pc = "extracted"
    /\ \E idMap \in TranslationInputs(mode) :
         \E built \in { BuildTextMap(segments, idMap,
                              [textMap |-> <<>>, translatedCount |-> 0,
                               missingCount |-> 0]) } :
             /\ idToTranslation' = idMap
             /\ textMap' = built.textMap
             /\ translatedCount' =
                   IF mode = "cli" THEN built.translatedCount ELSE 0
             /\ missingCount' =
                   IF mode = "cli" THEN built.missingCount ELSE 0
             /\ IF mode = "web" /\ DOMAIN built.textMap = {}
                THEN /\ error' = "No translations found"
                     /\ pc' = "stopped"
                ELSE /\ error' = error
                     /\ pc' = "inject"
    /\ fileIndex' = 0
    /\ UNCHANGED restVars
    /\ UNCHANGED <<mode, xmlVars, escapeVars, inputFiles, files, partPieces>>

\* for (const filePath of translatableFiles): one file of the injection
InjectPart ==
    /\ Pipeline /\ pc = "inject"
    /\ fileIndex < Len(getTranslatableFiles(files))
    /\ \E r \in { InjectFile(files,
                             getTranslatableFiles(files)[fileIndex + 1],
                             textMap) } :
           IF r.ok
           THEN /\ files' = r.files
                /\ partPieces' = Append(partPieces, r.pieces)
                /\ fileIndex' = fileIndex + 1
                /\ UNCHANGED <<pc, error>>
           ELSE /\ error' = FileNotFound(r.missing)
                /\ pc' = "failed"
                /\ UNCHANGED <<files, partPieces, fileIndex>>
    /\ UNCHANGED restVars
    /\ UNCHANGED <<mode, xmlVars, escapeVars, inputFiles, idToTranslation,
                   textMap, translatedCount, missingCount>>

\* the loop is over: the package is zipped and written or downloaded
InjectDone ==
    /\ Pipeline /\ pc = "inject"
    /\ fileIndex = Len(getTranslatableFiles(files))
    /\ pc' = "done"
    /\ UNCHANGED restVars
    /\ UNCHANGED <<mode, xmlVars, escapeVars, pipelineVars>>

NextPipeline ==
    ExtractPart \/ ExtractDone \/ BuildMapping \/ InjectPart \/ InjectDone

SpecPipeline == InitPipeline /\ [][NextPipeline]_vars

\* the extraction of one part and of a package
SpecExtract ==
    (InitXml \/ InitPipeline) /\ [][NextXml \/ NextPipeline]_vars

-----------------------------------------------------------------------------
(* extract.ts: the plain-text rendering; inject.ts: parseTxtTranslations.   *)

\* content.split('\n')
RECURSIVE Split(_)
Split(content) ==
    IF IndexOf(content, <<"\n">>, 0) = -1 THEN <<content>>
    ELSE <<Slice(content, 0, IndexOf(content, <<"\n">>, 0))>>
         \o Split(Slice(content, IndexOf(content, <<"\n">>, 0) + 1,
                        Len(content)))

\* list.join('\n')
RECURSIVE JoinLines(_)
JoinLines(list) ==
    IF list = <<>> THEN <<>>
    ELSE IF Len(list) = 1 THEN Head(list)
    ELSE Head(list) \o <<"\n">> \o JoinLines(Tail(list))

\* line.match(/^\[(p\d+)\]$/) is not null
IsIdLine(line) ==
    /\ Len(line) >= 4
    /\ line[1] = "[" /\ line[2] = "p" /\ line[Len(line)] = "]"
    /\ \A k \in 3..Len(line) - 1 :
         line[k] \in {"0","1","2","3","4","5","6","7","8","9"}

\* idMatch[1]
LineId(line) == SubSeq(line, 2, Len(line) - 1)

\* let currentId: string | null = null
NullId == <<>>

\* if (currentId !== null && currentText.length > 0)
\*   translations.set(currentId, currentText.join('\n').trim())
SaveParagraph(translationsById, currentId, currentText) ==
    IF currentId # NullId /\ Len(currentText) > 0
    THEN MapSet(translationsById, currentId, Trim(JoinLines(currentText)))
    ELSE translationsById

\* for (const line of lines), then the save of the last paragraph
RECURSIVE ParseLines(_, _, _, _, _)
ParseLines(lines, i, currentId, currentText, translationsById) ==
    IF i > Len(lines)
    THEN SaveParagraph(translationsById, currentId, currentText)
    ELSE IF IsIdLine(lines[i])
    THEN ParseLines(lines, i + 1, LineId(lines[i]), <<>>,
                    SaveParagraph(translationsById, currentId, currentText))
    ELSE IF currentId # NullId
    THEN ParseLines(lines, i + 1, currentId, Append(currentText, lines[i]),
                    translationsById)
    ELSE ParseLines(lines, i + 1, currentId, currentText, translationsById)

parseTxtTranslations(content) ==
    ParseLines(Split(content), 1, NullId, <<>>, <<>>)

\* `[${seg.id}]\n${seg.text}\n`
SimpleBlock(seg) == <<"[">> \o seg.id \o <<"]", "\n">> \o seg.text \o <<"\n">>

\* allSegments.map(...).join('\n')
SimpleFormat(segs) == JoinLines([i \in 1..Len(segs) |-> SimpleBlock(segs[i])])

\* most segments of a rendered list
MaxSegments == 2

\* texts of extracted segments: none is blank, none holds a "<"
SegmentTexts ==
    { <<"A">>, <<"B">>, <<"a"," ","b">>, <<"a","\n","b">>, <<" ","a">>,
      <<"a"," ">>, <<"[","p","1","]">> }

\* the lists one extraction pass can give: ids from p0 or from p9 on
SegmentLists ==
    UNION { { [i \in 1..n |->
                 MakeSegment(start + i - 1, texts[i], DocumentXml,
                             <<texts[i]>>)] :
                start \in {0, 9}, texts \in [1..n -> SegmentTexts] } :
            n \in 0..MaxSegments }

InitTxt ==
    /\ mode = "txt" /\ pc = "start"
    /\ segments \in SegmentLists
    /\ xml = <<>> /\ sourcePath = <<>> /\ startId = 0 /\ nextId = 0
    /\ translations = <<>> /\ keys = <<>> /\ pieces = <<>> /\ out = <<>>
    /\ NoEscape /\ NoPipeline /\ NoRest

\* const simpleFormat = allSegments.map(...).join('\n')
Render ==
    /\ mode = "txt" /\ pc = "start"
    /\ simpleFormat' = SimpleFormat(segments)
    /\ pc' = "rendered"
    /\ UNCHANGED <<mode, parsed, xmlVars, escapeVars, pipelineVars, getVars,
                   againVars, callVars, appVars>>

\* idToTranslation = parseTxtTranslations(txtContent)
Parse ==
    /\ mode = "txt" /\ pc = "rendered"
    /\ parsed' = parseTxtTranslations(simpleFormat)
    /\ pc' = "parsed"
    /\ UNCHANGED <<mode, simpleFormat, xmlVars, escapeVars, pipelineVars,
                   getVars, againVars, callVars, appVars>>

NextTxt == Render \/ Parse

SpecTxt == InitTxt /\ [][NextTxt]_vars

-----------------------------------------------------------------------------
(* docx-utils.ts: one call of getXmlContent on a package.                   *)

FooterXml == <<"w","o","r","d","/","f","o","o","t","e","r",".","x","m","l">>

\* the paths a caller asks for
ReadPaths == EntryPaths \cup { FooterXml }

\* contents of an entry: nothing at all, and one paragraph
ReadTexts ==
    { <<>>,
      <<"<","w",":","p",">","<","w",":","t",">","a","<","/","w",":","t",">","<","/","w",":","p",">">> }

\* the lists of at most MaxEntries entries with distinct paths
ReadPackages ==
    UNION { { fs \in [1..n -> [path : EntryPaths,
                               data : { TextEncode(t) : t \in ReadTexts }]] :
                \A i, j \in 1..n : i # j => fs[i].path # fs[j].path } :
            n \in 0..MaxEntries }

InitGet ==
    /\ mode = "get" /\ pc = "start"
    /\ inputFiles \in ReadPackages
    /\ files = inputFiles /\ fileIndex = 0
    /\ idToTranslation = <<>> /\ textMap = <<>>
    /\ translatedCount = 0 /\ missingCount = 0
    /\ partPieces = <<>> /\ error = ""
    /\ NoXml /\ NoEscape /\ NoRest

\* const xml = getXmlContent(files, path): the text returned or the error
\* thrown
GetXml ==
    /\ mode = "get" /\ pc = "start"
    /\ \E path \in ReadPaths :
         \E got \in { getXmlContent(files, path) } :
            /\ readPath' = path
            /\ IF got.ok
               THEN /\ readText' = got.text
                    /\ error' = error
                    /\ pc' = "returned"
               ELSE /\ readText' = readText
                    /\ error' = FileNotFound(got.missing)
                    /\ pc' = "thrown"
    /\ UNCHANGED <<mode, xmlVars, escapeVars, txtVars, againVars, callVars,
                   appVars, inputFiles,
                   files, fileIndex, idToTranslation, textMap,
                   translatedCount, missingCount, partPieces>>

NextGet == GetXml

SpecGet == InitGet /\ [][NextGet]_vars

-----------------------------------------------------------------------------
(* xml-utils.ts: calls of the two functions one after another in one module *)
(* instance, with the cursors of its two regular expressions.               *)

\* most calls in a row
MaxCalls == 2

\* the documents of the calls
CallDocs ==
    { pre \o ExampleDoc \o post : pre \in Prefixes, post \in Suffixes }
    \cup { <<>>, <<"x">> }

\* where the loop over the text runs of a paragraph made its last, failing,
\* exec
RECURSIVE LastTextIndex(_, _)
LastTextIndex(paragraphContent, lastIndex) ==
    IF ~TextExec(paragraphContent, lastIndex).found THEN lastIndex
    ELSE LastTextIndex(paragraphContent,
                       TextExec(paragraphContent, lastIndex).lastIndex)

\* where the loop over the paragraphs made its last, failing, exec
LastParagraphIndex(matches, lastIndex) ==
    IF matches = <<>> THEN lastIndex ELSE matches[Len(matches)].lastIndex

\* TEXT_ELEMENT_REGEX.lastIndex after a call that found these paragraphs
TextCursorAfter(matches, lastIndex) ==
    IF matches = <<>> THEN lastIndex
    ELSE FailedExecLastIndex(
             LastTextIndex(matches[Len(matches)].content,
                           ResetLastIndex(lastIndex)))

\* PARAGRAPH_REGEX.lastIndex after a call that found these paragraphs
ParagraphCursorAfter(matches, lastIndex) ==
    FailedExecLastIndex(LastParagraphIndex(matches, ResetLastIndex(lastIndex)))

InitCalls ==
    /\ mode = "calls" /\ pc = "loaded"
    /\ NoXml /\ NoEscape /\ NoPipeline /\ NoRest

\* a call of extractParagraphSegments in a module that made other calls
CallExtract ==
    /\ mode = "calls" /\ callCount < MaxCalls
    /\ \E doc \in CallDocs, args \in ExtractArgs :
         \E r \in { ExtractLoop(doc, args[1],
                                ResetLastIndex(paragraphLastIndex), args[2],
                                <<>>) },
            matches \in { ParagraphMatches(doc,
                              ResetLastIndex(paragraphLastIndex)) } :
            /\ xml' = doc
            /\ sourcePath' = args[1]
            /\ startId' = args[2]
            /\ segments' = r.segments
            /\ nextId' = r.nextId
            /\ paragraphLastIndex'
                  = ParagraphCursorAfter(matches, paragraphLastIndex)
            /\ textLastIndex' = TextCursorAfter(matches, textLastIndex)
    /\ callCount' = callCount + 1
    /\ pc' = "extract"
    /\ UNCHANGED <<mode, translations, keys, pieces, out, mappingAfter,
                   escapeVars, pipelineVars, txtVars, getVars, againVars,
                   appVars>>

\* a call of replaceParagraphText in a module that made other calls; the
\* function only calls translations.get
CallReplace ==
    /\ mode = "calls" /\ callCount < MaxCalls
    /\ \E doc \in CallDocs, trans \in Maps :
         \E r \in { ReplaceTrace(doc, trans) },
            matches \in { ParagraphMatches(doc,
                              ResetLastIndex(paragraphLastIndex)) } :
            /\ xml' = doc
            /\ translations' = trans
            /\ mappingAfter' = trans
            /\ keys' = r.keys
            /\ pieces' = r.pieces
            /\ out' = r.out
            /\ paragraphLastIndex'
                  = ParagraphCursorAfter(matches, paragraphLastIndex)
            /\ textLastIndex' = TextCursorAfter(matches, textLastIndex)
    /\ callCount' = callCount + 1
    /\ pc' = "replace"
    /\ UNCHANGED <<mode, sourcePath, startId, segments, nextId, escapeVars,
                   pipelineVars, txtVars, getVars, againVars, appVars>>

NextCalls == CallExtract \/ CallReplace

SpecCalls == InitCalls /\ [][NextCalls]_vars

-----------------------------------------------------------------------------
(* App.tsx: the upload, the range selection and the injection of the web    *)
(* app.  The awaits of processFile and injectTranslations end a step: what  *)
(* follows an await is a step of its own, taken when the promise settles.   *)

\* most files dropped or selected in one behaviour
MaxUploads == 2

\* largest number typed into the "From" and "to" inputs
MaxInput == 4

\* most injectTranslations calls waiting for createDocxBytes at a time
MaxZips == 1

\* selectFirst(10), selectFirst(25), selectFirst(50)
QuickSelectSizes == {10, 25, 50}

OneParagraphXml ==
    <<"<","w",":","p",">","<","w",":","t",">","a","<","/","w",":","t",">","<","/","w",":","p",">">>

TwoParagraphsXml ==
    <<"<","w",":","p",">","<","w",":","t",">","b","<","/","w",":","t",">","<","/","w",":","p",">",
      "<","w",":","p",">","<","w",":","t",">","c","<","/","w",":","t",">","<","/","w",":","p",">">>

\* the files a user may drop or select: a document of one paragraph, a
\* document of two paragraphs with a header of one, a file that is not a
\* zip archive, and an archive without translatable entries whose name does
\* not end in .docx
UploadFiles ==
    { [name |-> <<"a",".","d","o","c","x">>, ok |-> TRUE,
       files |-> <<[path |-> DocumentXml,
                    data |-> TextEncode(OneParagraphXml)]>>],
      [name |-> <<"b",".","d","o","c","x">>, ok |-> TRUE,
       files |-> <<[path |-> DocumentXml,
                    data |-> TextEncode(TwoParagraphsXml)],
                   [path |-> Header1Xml,
                    data |-> TextEncode(OneParagraphXml)]>>],
      [name |-> <<"c",".","d","o","c","x">>, ok |-> FALSE, files |-> <<>>],
      [name |-> <<"d",".","z","i","p">>, ok |-> TRUE,
       files |-> <<[path |-> StylesXml,
                    data |-> TextEncode(OneParagraphXml)]>>] }

\* name.endsWith('.docx')
EndsWithDocx(name) ==
    /\ Len(name) >= 5
    /\ SubSeq(name, Len(name) - 4, Len(name)) = <<".","d","o","c","x">>

\* Number.parseInt(e.currentTarget.value): <<>> for NaN, else <<n>>
ParsedInputs == {<<>>} \cup { <<n>> : n \in -1..MaxInput }

\* typed || fallback
OrElse(typed, fallback) ==
    IF typed = <<>> \/ typed[1] = 0 THEN fallback ELSE typed[1]

Min(a, b) == IF a < b THEN a ELSE b

Max(a, b) == IF a > b THEN a ELSE b

\* allSegments.push(...result.segments); nextId = result.nextId
PushSegments(acc, r) ==
    [segments |-> acc.segments \o r.segments, nextId |-> r.nextId]

\* the extraction loop of processFile over translatableFiles, from file i
RECURSIVE ExtractAll(_, _, _, _)
ExtractAll(fs, paths, i, acc) ==
    IF i > Len(paths) THEN acc
    ELSE ExtractAll(fs, paths, i + 1,
                    PushSegments(acc, ExtractFile(fs, paths[i], acc.nextId)))

\* allSegments of processFile
AllSegments(fs) ==
    ExtractAll(fs, getTranslatableFiles(fs), 1,
               [segments |-> <<>>, nextId |-> 0]).segments

\* the injection loop of injectTranslations over translatableFiles, from
\* file i: the package is rewritten in place
RECURSIVE InjectAll(_, _, _, _)
InjectAll(fs, paths, i, trans) ==
    IF i > Len(paths) THEN fs
    ELSE InjectAll(InjectFile(fs, paths[i], trans).files, paths, i + 1, trans)

InitApp ==
    /\ mode = "app" /\ pc = "app"
    /\ state = "upload" /\ file = <<>> /\ docxFiles = <<>>
    /\ startParagraph = 0 /\ endParagraph = 0
    /\ inFlight = {} /\ uploads = 0 /\ zipping = 0
    /\ NoXml /\ NoEscape /\ NoPipeline /\ NoTxt /\ NoGet /\ NoAgain /\ NoCalls

\* what an action of the app leaves alone besides its own signals
AppFrame ==
    UNCHANGED <<mode, pc, xml, sourcePath, startId, nextId, translations,
                keys, pieces, out, escapeVars, inputFiles, files, fileIndex,
                idToTranslation, textMap, translatedCount, missingCount,
                partPieces, txtVars, getVars, againVars, callVars>>

\* processFile up to its await: setError(null); setFile(uploadedFile)
ProcessFileStart(f) ==
    /\ uploads < MaxUploads
    /\ error' = ""
    /\ file' = <<f>>
    /\ uploads' = uploads + 1
    /\ inFlight' = inFlight \cup {[id |-> uploads + 1, file |-> f]}
    /\ UNCHANGED <<state, docxFiles, segments, startParagraph, endParagraph,
                   zipping>>
    /\ AppFrame

\* handleDrop, offered while state() === 'upload'
Drop ==
    /\ mode = "app" /\ state = "upload"
    /\ \E f \in UploadFiles :
         /\ EndsWithDocx(f.name)
         /\ ProcessFileStart(f)

\* handleFileInput, offered while state() === 'upload'
Select ==
    /\ mode = "app" /\ state = "upload"
    /\ \E f \in UploadFiles : ProcessFileStart(f)

\* processFile after its await, the unzip having succeeded
UnzipDone ==
    /\ mode = "app"
    /\ \E task \in inFlight :
         /\ task.file.ok
         /\ \E all \in { AllSegments(task.file.files) } :
              /\ docxFiles' = <<task.file.files>>
              /\ segments' = all
              /\ startParagraph' = 0
              /\ endParagraph' = Len(all)
              /\ state' = "extracted"
         /\ inFlight' = inFlight \ {task}
    /\ UNCHANGED <<file, error, uploads, zipping>>
    /\ AppFrame

\* processFile after its await, the unzip having failed
UnzipFailed ==
    /\ mode = "app"
    /\ \E task \in inFlight :
         /\ ~task.file.ok
         /\ error' = "Failed to process file"
         /\ inFlight' = inFlight \ {task}
    /\ UNCHANGED <<state, file, docxFiles, segments, startParagraph,
                   endParagraph, uploads, zipping>>
    /\ AppFrame

\* reset, offered while state() !== 'upload'
Reset ==
    /\ mode = "app" /\ state # "upload"
    /\ state' = "upload"
    /\ file' = <<>>
    /\ docxFiles' = <<>>
    /\ segments' = <<>>
    /\ error' = ""
    /\ startParagraph' = 0
    /\ endParagraph' = 0
    /\ UNCHANGED <<inFlight, uploads, zipping>>
    /\ AppFrame

\* onInput of the "From" field
InputFrom ==
    /\ mode = "app" /\ state = "extracted"
    /\ \E typed \in ParsedInputs :
         \E val \in { OrElse(typed, 0) } :
           /\ startParagraph' = Max(0, Min(val, Len(segments) - 1))
           /\ endParagraph' =
                 IF val >= endParagraph THEN val + 1 ELSE endParagraph
    /\ UNCHANGED <<state, file, docxFiles, segments, error, inFlight, uploads,
                   zipping>>
    /\ AppFrame

\* onInput of the "to" field
InputTo ==
    /\ mode = "app" /\ state = "extracted"
    /\ \E typed \in ParsedInputs :
         \E val \in { OrElse(typed, 1) } :
           endParagraph' = Max(startParagraph + 1, Min(val, Len(segments)))
    /\ UNCHANGED <<state, file, docxFiles, segments, error, startParagraph,
                   inFlight, uploads, zipping>>
    /\ AppFrame

\* selectAll
SelectAll ==
    /\ mode = "app" /\ state = "extracted"
    /\ startParagraph' = 0
    /\ endParagraph' = Len(segments)
    /\ UNCHANGED <<state, file, docxFiles, segments, error, inFlight, uploads,
                   zipping>>
    /\ AppFrame

\* selectFirst(n)
SelectFirst ==
    /\ mode = "app" /\ state = "extracted"
    /\ \E n \in QuickSelectSizes :
         /\ startParagraph' = 0
         /\ endParagraph' = Min(n, Len(segments))
    /\ UNCHANGED <<state, file, docxFiles, segments, error, inFlight, uploads,
                   zipping>>
    /\ AppFrame

\* injectTranslations up to its await, offered while state() === 'extracted':
\* pasted tells whether translatedText() has anything but whitespace, idMap is
\* what parseTxtTranslations makes of it
InjectStart ==
    /\ mode = "app" /\ state = "extracted"
    /\ zipping < MaxZips
    /\ \E pasted \in BOOLEAN :
         IF docxFiles = <<>> \/ ~pasted
         THEN /\ error' = "Please paste the translated text first"
              /\ UNCHANGED <<docxFiles, zipping>>
         ELSE \E idMap \in TranslationInputs("web") :
                \E built \in { BuildTextMap(segments, idMap,
                                   [textMap |-> <<>>, translatedCount |-> 0,
                                    missingCount |-> 0]) } :
                  IF built.textMap = <<>>
                  THEN /\ error' = "No translations found"
                       /\ UNCHANGED <<docxFiles, zipping>>
                  ELSE /\ docxFiles' =
                            <<InjectAll(docxFiles[1],
                                        getTranslatableFiles(docxFiles[1]), 1,
                                        built.textMap)>>
                       /\ zipping' = zipping + 1
                       /\ UNCHANGED error
    /\ UNCHANGED <<state, file, segments, startParagraph, endParagraph,
                   inFlight, uploads>>
    /\ AppFrame

\* injectTranslations after its await: setState('ready-to-inject')
ZipDone ==
    /\ mode = "app"
    /\ zipping > 0
    /\ zipping' = zipping - 1
    /\ state' = "ready-to-inject"
    /\ UNCHANGED <<file, docxFiles, segments, error, startParagraph,
                   endParagraph, inFlight, uploads>>
    /\ AppFrame

NextApp ==
    \/ Drop \/ Select \/ UnzipDone \/ UnzipFailed \/ Reset
    \/ InputFrom \/ InputTo \/ SelectAll \/ SelectFirst
    \/ InjectStart \/ ZipDone

SpecApp == InitApp /\ [][NextApp]_vars

-----------------------------------------------------------------------------
(* The behaviours of every entry point.                                     *)

Init ==
    \/ InitXml \/ InitEscape \/ InitPipeline \/ InitTxt \/ InitGet
    \/ InitCalls \/ InitApp

Next ==
    \/ NextXml \/ NextEscape \/ NextPipeline \/ NextTxt \/ NextGet
    \/ NextCalls \/ NextApp

Spec == Init /\ [][Next]_vars

-----------------------------------------------------------------------------
(* Vocabulary of the properties.                                            *)

XmlDone(at) == mode = "xml" /\ pc = at

Extracted == XmlDone("extracted") \/ XmlDone("replaced")

\* the paragraph blocks of the input, in document order
InputBlocks == ParagraphMatches(xml, 0)

\* the text-run elements of a paragraph content, in document order
RECURSIVE RunsOf(_, _)
RunsOf(content, from) ==
    LET m == TextExec(content, from) IN
    IF ~m.found THEN <<>> ELSE <<m>> \o RunsOf(content, m.lastIndex)

\* the contents of text runs one after the other, nothing in between
RECURSIVE RunTexts(_)
RunTexts(runs) ==
    IF runs = <<>> THEN <<>> ELSE Head(runs).text \o RunTexts(Tail(runs))

\* the reconstructed text of each paragraph block
BlockTexts(blocks) ==
    [i \in 1..Len(blocks) |-> RunTexts(RunsOf(blocks[i].content, 0))]

IsBlank(s) == \A k \in 1..Len(s) : s[k] \in WhiteSpace

\* the indexes, ascending from i, of the non-blank texts of a list
RECURSIVE KeptFrom(_, _)
KeptFrom(texts, i) ==
    IF i > Len(texts) THEN <<>>
    ELSE (IF IsBlank(texts[i]) THEN <<>> ELSE <<i>>) \o KeptFrom(texts, i + 1)

\* a block as replaceParagraphText emitted it, read as a paragraph
OutputBlock(piece) == ParagraphMatchAt(piece, 0)

\* by how much the output is longer than the input up to and including
\* the i-th block
RECURSIVE Shift(_, _)
Shift(blocks, i) ==
    IF i = 0 THEN 0
    ELSE Shift(blocks, i - 1) + Len(pieces[i]) - Len(blocks[i].fullMatch)

\* the text outside the blocks: stretch 0 precedes the first block, stretch i
\* follows the i-th
OutsideFrom(blocks, i) == IF i = 0 THEN 0 ELSE blocks[i].lastIndex

OutsideTo(blocks, i) ==
    IF i = Len(blocks) THEN Len(xml) ELSE blocks[i + 1].index

\* the entity of one character under the five-entity rule
EntityOf(c) ==
    CASE c = "&" -> <<"&","a","m","p",";">>
      [] c = "<" -> <<"&","l","t",";">>
      [] c = ">" -> <<"&","g","t",";">>
      [] c = "\"" -> <<"&","q","u","o","t",";">>
      [] c = "'" -> <<"&","a","p","o","s",";">>
      [] OTHER -> <<c>>

RECURSIVE EscapeEachChar(_)
EscapeEachChar(t) ==
    IF t = <<>> THEN <<>> ELSE EntityOf(Head(t)) \o EscapeEachChar(Tail(t))

\* a string with the content of every text run removed
RECURSIVE EraseRuns(_, _)
EraseRuns(s, from) ==
    LET m == TextExec(s, from) IN
    IF ~m.found THEN Slice(s, from, Len(s))
    ELSE Slice(s, from, m.index) \o <<"<","w",":","t">> \o m.attrs
         \o <<">","<","/","w",":","t",">">> \o EraseRuns(s, m.lastIndex)

\* the number a decimal numeral stands for
DigitValue(c) ==
    CASE c = "0" -> 0 [] c = "1" -> 1 [] c = "2" -> 2 [] c = "3" -> 3
      [] c = "4" -> 4 [] c = "5" -> 5 [] c = "6" -> 6 [] c = "7" -> 7
      [] c = "8" -> 8 [] c = "9" -> 9

Digits == {"0","1","2","3","4","5","6","7","8","9"}

RECURSIVE DecimalValue(_)
DecimalValue(ds) ==
    IF ds = <<>> THEN 0
    ELSE 10 * DecimalValue(SubSeq(ds, 1, Len(ds) - 1)) + DigitValue(ds[Len(ds)])

\* an identifier is "p" and a decimal numeral without leading zeros
WellFormedId(id) ==
    /\ Len(id) >= 2
    /\ id[1] = "p"
    /\ \A k \in 2..Len(id) : id[k] \in Digits
    /\ (Len(id) > 2 => id[2] # "0")

IdNumber(id) == DecimalValue(Tail(id))

-----------------------------------------------------------------------------
(* Properties of replaceParagraphText and extractParagraphSegments.         *)

\* C1: replaceParagraphText emits every paragraph block whose reconstructed
\* text is not a key of the mapping unchanged, and every stretch of text
\* outside the blocks unchanged; with an empty mapping the output is the input.
TheoremC1 ==
    XmlDone("replaced") =>
        LET blocks == InputBlocks
            texts == BlockTexts(blocks)
            n == Len(blocks)
            shift == [i \in 0..n |-> Shift(blocks, i)]
        IN
        /\ Len(pieces) = n
        /\ Len(out) = Len(xml) + shift[n]
        /\ \A i \in 1..n :
             texts[i] \notin DOMAIN translations =>
                Slice(out, blocks[i].index + shift[i - 1],
                           blocks[i].lastIndex + shift[i - 1])
                    = blocks[i].fullMatch
        /\ \A i \in 0..n :
             Slice(out, OutsideFrom(blocks, i) + shift[i],
                        OutsideTo(blocks, i) + shift[i])
                 = Slice(xml, OutsideFrom(blocks, i), OutsideTo(blocks, i))
        /\ (DOMAIN translations = {} => out = xml)

\* a run over a part that holds a paragraph that is rewritten, a paragraph
\* that is not, and text outside both
WitnessC1 ==
    /\ XmlDone("replaced")
    /\ LET blocks == InputBlocks
           texts == BlockTexts(blocks)
       IN
       /\ \E i, j \in 1..Len(blocks) :
            /\ texts[i] \notin DOMAIN translations
            /\ texts[j] \in DOMAIN translations
            /\ pieces[j] # blocks[j].fullMatch
       /\ \E i \in 0..Len(blocks) :
            OutsideFrom(blocks, i) < OutsideTo(blocks, i)

\* C2: a rewritten paragraph with n >= 1 text runs still has n text runs; the
\* first holds the escaped translation, the others are empty, and each keeps
\* its attributes.
TheoremC2 ==
    XmlDone("replaced") =>
        LET blocks == InputBlocks IN
        \A i \in 1..Len(blocks) :
            LET old == RunsOf(blocks[i].content, 0)
                key == RunTexts(old)
                new == RunsOf(OutputBlock(pieces[i]).content, 0)
            IN  (key \in DOMAIN translations /\ Len(old) >= 1) =>
                    /\ OutputBlock(pieces[i]).found
                    /\ Len(new) = Len(old)
                    /\ new[1].text = EscapeEachChar(translations[key])
                    /\ \A k \in 2..Len(new) : new[k].text = <<>>
                    /\ \A k \in 1..Len(new) : new[k].attrs = old[k].attrs

\* a rewritten paragraph of three text runs, one of them with an attribute
WitnessC2 ==
    /\ XmlDone("replaced")
    /\ LET blocks == InputBlocks IN
       \E i \in 1..Len(blocks) :
         LET old == RunsOf(blocks[i].content, 0) IN
         /\ RunTexts(old) \in DOMAIN translations
         /\ Len(old) = 3
         /\ \E k \in 1..3 : old[k].attrs # <<>>
         /\ \E k \in 2..3 : old[k].text # <<>>

\* C3: a rewritten paragraph equals its input once the contents of all text
\* runs are erased, also when the block starts with a self-closing tag.
CounterexampleC3 ==
    XmlDone("replaced") =>
        LET blocks == InputBlocks
            texts == BlockTexts(blocks)
        IN
        \A i \in 1..Len(blocks) :
            texts[i] \in DOMAIN translations =>
                EraseRuns(pieces[i], 0) = EraseRuns(blocks[i].fullMatch, 0)

\* C4: the texts of the segments are, in order, the non-blank lookup keys the
\* injector computes for the paragraphs of the same xml; a paragraph whose
\* segment text is a key of the mapping is rewritten.
TheoremC4 ==
    XmlDone("replaced") =>
        LET kept == KeptFrom(keys, 1) IN
        /\ Len(keys) = Len(pieces)
        /\ Len(segments) = Len(kept)
        /\ \A j \in 1..Len(segments) :
             /\ segments[j].text = keys[kept[j]]
             /\ segments[j].text \in DOMAIN translations =>
                  /\ OutputBlock(pieces[kept[j]]).found
                  /\ RunsOf(OutputBlock(pieces[kept[j]]).content, 0)[1].text
                        = EscapeEachChar(translations[segments[j].text])

\* a segment whose text, with its trailing blank, is a key of the mapping,
\* and a segment whose text is not
WitnessC4 ==
    /\ XmlDone("replaced")
    /\ \E j \in 1..Len(segments) :
         /\ segments[j].text \in DOMAIN translations
         /\ Trim(segments[j].text) # segments[j].text
    /\ \E j \in 1..Len(segments) : segments[j].text \notin DOMAIN translations

\* C5: the segments are those of the paragraphs with non-blank text, in
\* document order; each has the run contents concatenated without separator
\* or trimming as text, the number of runs as runCount, the caller's path as
\* source.
TheoremC5 ==
    Extracted =>
        LET blocks == InputBlocks
            kept == KeptFrom(BlockTexts(blocks), 1)
        IN
        /\ Len(segments) = Len(kept)
        /\ \A j \in 1..Len(segments) :
             LET runs == RunsOf(blocks[kept[j]].content, 0) IN
             /\ segments[j].text = RunTexts(runs)
             /\ segments[j].runCount = Len(runs)
             /\ segments[j].source = sourcePath

\* two segments, the first from a paragraph of several runs with blank text
\* at either end or between
WitnessC5 ==
    /\ Extracted
    /\ Len(segments) = 2
    /\ segments[1].runCount >= 2
    /\ \E k \in 1..Len(segments[1].text) : segments[1].text[k] \in WhiteSpace
    /\ segments[1].text # segments[2].text

\* C6: a paragraph with blank text gives no segment and leaves the counter
\* alone: the segments number one per non-blank paragraph, the counter ends
\* that many above its start, and consecutive segments have consecutive
\* numbers.
TheoremC6 ==
    Extracted =>
        LET kept == KeptFrom(BlockTexts(InputBlocks), 1) IN
        /\ \A j \in 1..Len(segments) : ~IsBlank(segments[j].text)
        /\ Len(segments) = Len(kept)
        /\ nextId = startId + Len(kept)
        /\ \A j \in 1..Len(segments) - 1 :
             IdNumber(segments[j + 1].id) = IdNumber(segments[j].id) + 1
        /\ (segments # <<>> => IdNumber(segments[1].id) = startId)

\* a paragraph with whitespace-only runs between two paragraphs with text
WitnessC6 ==
    /\ Extracted
    /\ Len(segments) = 2
    /\ LET blocks == InputBlocks
           texts == BlockTexts(blocks)
       IN
       \E i \in 2..Len(blocks) - 1 :
         /\ IsBlank(texts[i])
         /\ RunsOf(blocks[i].content, 0) # <<>>
         /\ ~IsBlank(texts[i - 1])
         /\ ~IsBlank(texts[i + 1])

-----------------------------------------------------------------------------
(* Properties of escapeXml and unescapeXml.                                 *)

\* C8: unescapeXml(escapeXml(t)) = t for every t, entity-like text included.
CounterexampleC8 ==
    (mode = "escape" /\ pc = "unescaped") => unescaped = text

-----------------------------------------------------------------------------
(* Properties of the extraction and injection pipelines.                    *)

\* the parts the pipeline walks, in the order it walks them
Parts == getTranslatableFiles(inputFiles)

\* the paragraph blocks of the f-th part as the package was given
PartBlocks(f) ==
    ParagraphMatches(TextDecode(Entry(inputFiles, Parts[f]).data), 0)

\* the part the j-th segment came from
PartOf(j) == CHOOSE f \in 1..Len(Parts) : Parts[f] = segments[j].source

\* the block of that part the j-th segment came from
BlockOf(j) ==
    KeptFrom(BlockTexts(PartBlocks(PartOf(j))), 1)
        [Cardinality({ k \in 1..j : segments[k].source = segments[j].source })]

\* the j-th segment has no translation, or a blank one
Untranslated(j) ==
    \/ segments[j].id \notin DOMAIN idToTranslation
    \/ IsBlank(idToTranslation[segments[j].id])

\* the injection left the paragraph of the j-th segment as it was
Unmodified(j) ==
    partPieces[PartOf(j)][BlockOf(j)]
        = PartBlocks(PartOf(j))[BlockOf(j)].fullMatch

Mapped == Pipeline /\ pc \in {"inject", "done", "stopped"}

\* C7: the k-th segment of one call has the id "p" and the decimal numeral of
\* start + k, and nextId is start plus the number of segments; over a package
\* the ids are p0, p1, ... in emission order, pairwise distinct, and the
\* counter is the number of segments so far.
TheoremC7 ==
    /\ Extracted =>
         /\ \A k \in 1..Len(segments) :
              /\ WellFormedId(segments[k].id)
              /\ IdNumber(segments[k].id) = startId + k - 1
         /\ nextId = startId + Len(segments)
    /\ Pipeline =>
         /\ \A k \in 1..Len(segments) :
              /\ WellFormedId(segments[k].id)
              /\ IdNumber(segments[k].id) = k - 1
         /\ \A j, k \in 1..Len(segments) :
              j # k => segments[j].id # segments[k].id
         /\ nextId = Len(segments)

\* a package whose second part gave segments after those of the first
WitnessC7 ==
    /\ Pipeline /\ pc = "extracted"
    /\ Len(segments) >= 3
    /\ \E k \in 2..Len(segments) :
         /\ segments[k].source # segments[1].source
         /\ segments[k].id = <<"p">> \o NumberToString(k - 1)

\* C9: textMap has a key only for the text of a segment whose id has a
\* non-blank translation, and has one for every such segment; each value is
\* the translation of such a segment and is not blank; no key is blank; the
\* CLI's two tallies add up to the number of segments.
TheoremC9 ==
    Mapped =>
        /\ \A t \in DOMAIN textMap :
             /\ \E j \in 1..Len(segments) :
                  /\ segments[j].text = t
                  /\ ~Untranslated(j)
                  /\ textMap[t] = idToTranslation[segments[j].id]
             /\ ~IsBlank(textMap[t])
             /\ ~IsBlank(t)
        /\ \A j \in 1..Len(segments) :
             ~Untranslated(j) => segments[j].text \in DOMAIN textMap
        /\ mode = "cli" =>
             /\ translatedCount
                   = Cardinality({ j \in 1..Len(segments) : ~Untranslated(j) })
             /\ translatedCount + missingCount = Len(segments)

\* a CLI run with a translated segment, a segment whose translation is blank
\* and a segment without translation
WitnessC9 ==
    /\ mode = "cli" /\ pc = "inject"
    /\ translatedCount >= 1 /\ missingCount >= 2
    /\ \E j, k \in 1..Len(segments) :
         /\ segments[j].id \notin DOMAIN idToTranslation
         /\ segments[k].id \in DOMAIN idToTranslation
         /\ IsBlank(idToTranslation[segments[k].id])

\* C10: a segment without a non-blank translation is no error and its
\* paragraph is left as it was, whatever the other segments are.
CounterexampleC10 ==
    (Pipeline /\ pc = "done") =>
        /\ error = ""
        /\ \A j \in 1..Len(segments) : Untranslated(j) => Unmodified(j)

\* C10, amended: a segment without a non-blank translation is no error unless
\* no segment at all has one (the web front-end then stops), and its
\* paragraph is left as it was unless another segment with the same text has
\* a non-blank translation.
TheoremC10 ==
    /\ (Pipeline /\ error # "") =>
         /\ mode = "web" /\ pc = "stopped"
         /\ \A j \in 1..Len(segments) : Untranslated(j)
    /\ (Pipeline /\ pc = "done") =>
         \A j \in 1..Len(segments) :
            (/\ Untranslated(j)
             /\ \A k \in 1..Len(segments) :
                  segments[k].text = segments[j].text => Untranslated(k))
                => Unmodified(j)

\* a finished run that rewrote the paragraph of a translated segment and left
\* that of an untranslated one, in the same part
WitnessC10 ==
    /\ Pipeline /\ pc = "done"
    /\ \E j, k \in 1..Len(segments) :
         /\ Untranslated(j) /\ Unmodified(j)
         /\ ~Untranslated(k) /\ ~Unmodified(k)
         /\ segments[j].source = segments[k].source

\* C11: when no segment has a usable translation, so that textMap is empty,
\* the injection reports it and stops, in the CLI and in the web front-end
\* alike: no entry is rewritten and no document is written.
CounterexampleC11 ==
    (Mapped /\ DOMAIN textMap = {}) =>
        /\ pc = "stopped"
        /\ error # ""
        /\ files = inputFiles
        /\ partPieces = <<>>

-----------------------------------------------------------------------------
(* Properties of the plain-text form.                                       *)

\* C12: rendering segments with distinct ids as "[id]\ntext\n" blocks joined
\* by blank lines and parsing the result gives back exactly the ids, each with
\* the text of its segment.
CounterexampleC12 ==
    (mode = "txt" /\ pc = "parsed") =>
        /\ DOMAIN parsed = { segments[j].id : j \in 1..Len(segments) }
        /\ \A j \in 1..Len(segments) :
             segments[j].id \in DOMAIN parsed
                => parsed[segments[j].id] = segments[j].text

-----------------------------------------------------------------------------
(* Properties of getXmlContent.                                             *)

AllowListed(path) ==
    /\ Len(path) >= 9
    /\ SubSeq(path, 1, 5) = <<"w","o","r","d","/">>
    /\ SubSeq(path, Len(path) - 3, Len(path)) = <<".","x","m","l">>
    /\ LET name == SubSeq(path, 6, Len(path) - 4) IN
       \/ name \in { <<"d","o","c","u","m","e","n","t">>,
                     <<"f","o","o","t","n","o","t","e","s">>,
                     <<"e","n","d","n","o","t","e","s">>,
                     <<"c","o","m","m","e","n","t","s">> }
       \/ /\ Len(name) >= 6
          /\ SubSeq(name, 1, 6) \in { <<"h","e","a","d","e","r">>,
                                      <<"f","o","o","t","e","r">> }
          /\ \A k \in 7..Len(name) : name[k] \in Digits

\* C14: an injection run keeps the entry paths of the package and the bytes
\* of every entry that is not on the allow-list, and rewrites at most the
\* entries that are on it.
TheoremC14 ==
    Pipeline =>
        /\ Len(files) = Len(inputFiles)
        /\ \A i \in 1..Len(files) :
             /\ files[i].path = inputFiles[i].path
             /\ ~AllowListed(files[i].path)
                   => files[i].data = inputFiles[i].data
        /\ Len(partPieces)
              <= Cardinality({ i \in 1..Len(files) : AllowListed(files[i].path) })
        /\ pc = "done" =>
             Len(partPieces)
                = Cardinality({ i \in 1..Len(files) : AllowListed(files[i].path) })

\* a finished run that rewrote an entry of a package which also holds an
\* entry off the allow-list with a paragraph whose text is a key
WitnessC14 ==
    /\ Pipeline /\ pc = "done"
    /\ files # inputFiles
    /\ \E i \in 1..Len(files) :
         /\ ~AllowListed(files[i].path)
         /\ replaceParagraphText(TextDecode(files[i].data), textMap)
               # TextDecode(files[i].data)

-----------------------------------------------------------------------------
(* Properties of a second pass of replaceParagraphText.                     *)

\* C15: after a paragraph is rewritten with mapping M its reconstructed text
\* is the translation M[original], and a second pass with M leaves it as it
\* is whenever that translation is no key of M.
CounterexampleC15 ==
    XmlDone("again") =>
        /\ Len(keysAgain) = Len(keys)
        /\ \A i \in 1..Len(keys) :
             (keys[i] \in DOMAIN translations /\ i <= Len(keysAgain)) =>
                /\ keysAgain[i] = translations[keys[i]]
                /\ translations[keys[i]] \notin DOMAIN translations
                      => piecesAgain[i] = pieces[i]

\* C15, amended: after a paragraph with at least one text run is rewritten
\* with mapping M its reconstructed text is the escaped translation
\* escapeXml(M[original]), and a second pass with M leaves it as it is
\* whenever that escaped text is no key of M.
TheoremC15 ==
    XmlDone("again") =>
        LET blocks == InputBlocks IN
        /\ Len(keysAgain) = Len(keys)
        /\ \A i \in 1..Len(keys) :
             (/\ keys[i] \in DOMAIN translations
              /\ RunsOf(blocks[i].content, 0) # <<>>) =>
                /\ keysAgain[i] = EscapeEachChar(translations[keys[i]])
                /\ keysAgain[i] \notin DOMAIN translations
                      => piecesAgain[i] = pieces[i]

\* a second pass over a paragraph that the first pass gave a translation with
\* a special character, and left alone by the second
WitnessC15 ==
    /\ XmlDone("again")
    /\ \E i \in 1..Len(keys) :
         /\ keys[i] \in DOMAIN translations
         /\ pieces[i] # InputBlocks[i].fullMatch
         /\ EscapeEachChar(translations[keys[i]]) # translations[keys[i]]
         /\ keysAgain[i] \notin DOMAIN translations
         /\ piecesAgain[i] = pieces[i]

-----------------------------------------------------------------------------
(* Properties of calls in a row.                                            *)

-----------------------------------------------------------------------------
(* Properties of segments that share a text.                                *)

\* the last segment with text t that has a non-blank translation
LastTranslated(t) ==
    CHOOSE j \in 1..Len(segments) :
        /\ segments[j].text = t /\ ~Untranslated(j)
        /\ \A k \in j + 1..Len(segments) :
             segments[k].text = t => Untranslated(k)

\* C17: the value textMap holds for a text is the translation of the last
\* segment with that text that has a non-blank translation, and a finished
\* injection gave every paragraph with that text, in every part, that
\* translation.
TheoremC17 ==
    Mapped =>
        /\ \A t \in DOMAIN textMap :
             /\ \E j \in 1..Len(segments) :
                  segments[j].text = t /\ ~Untranslated(j)
             /\ textMap[t] = idToTranslation[segments[LastTranslated(t)].id]
        /\ pc = "done" =>
             \A f \in 1..Len(Parts) :
                LET blocks == PartBlocks(f)
                    texts == BlockTexts(blocks)
                IN  \A i \in 1..Len(blocks) :
                       texts[i] \in DOMAIN textMap =>
                          /\ OutputBlock(partPieces[f][i]).found
                          /\ RunsOf(OutputBlock(partPieces[f][i]).content, 0)[1].text
                                = EscapeEachChar(textMap[texts[i]])

\* a finished run over two parts that hold segments of one text, translated
\* differently
WitnessC17 ==
    /\ Pipeline /\ pc = "done"
    /\ Len(Parts) = 2
    /\ \E j, k \in 1..Len(segments) :
         /\ j < k
         /\ segments[j].text = segments[k].text
         /\ segments[j].source # segments[k].source
         /\ ~Untranslated(j) /\ ~Untranslated(k)
         /\ idToTranslation[segments[j].id] # idToTranslation[segments[k].id]

-----------------------------------------------------------------------------
(* The web app.                                                             *)

AppExtracted == mode = "app" /\ state = "extracted"

\* the package and the segments stored are those of the file f: the segments
\* are the ones extracted from its archive, and the package is its archive,
\* entry for entry until an injection rewrites the entries in place
ProducedFrom(f) ==
    /\ Len(docxFiles) = 1
    /\ Keys(docxFiles[1]) = Keys(f.files)
    /\ zipping = 0 => docxFiles[1] = f.files
    /\ segments = AllSegments(f.files)

\* C18: whenever the web app is in state 'extracted', the stored package and
\* the stored segments were both produced from the file held in file(), also
\* when two processFile calls overlap and complete in either order.
CounterexampleC18 ==
    AppExtracted => file # <<>> /\ ProducedFrom(file[1])

\* C19: while the web app is in state 'extracted' with at least one segment,
\* after any sequence of "From" inputs, "to" inputs and quick-select buttons
\* the range satisfies 0 <= startParagraph < endParagraph <= segments.length.
CounterexampleC19 ==
    AppExtracted /\ Len(segments) >= 1 =>
        /\ 0 <= startParagraph
        /\ startParagraph < endParagraph
        /\ endParagraph <= Len(segments)

=============================================================================
